---- MODULE Spec2Model ----
(***************************************************************************)
(* A model of the VT-100 lexer of package vt100 (vt100.go): the escape      *)
(* sequence state machine (Lexer.ground .. Lexer.escapeDigit), the worker   *)
(* goroutine Lexer.run that drives it from the inbound channel, and the     *)
(* callers of SendChar, GetToken and Rundown.                               *)
(***************************************************************************)
EXTENDS Integers, Sequences, FiniteSets, TLC

(***************************************************************************)
(* Bytes.  A byte is a number in 0..255; text is written as a sequence of   *)
(* one-character strings and converted with Str.                            *)
(***************************************************************************)

\* The escape introducer, '\033' (0x1b).
ESC == 27

\* Capacity of the inbound byte channel and of the Output token channel.
InputCap == 10
OutputCap == 10

\* The printable ASCII characters 0x20..0x7e, in code order.
Printable ==
  << " ", "!", "\"", "#", "$", "%", "&", "'", "(", ")", "*", "+", ",", "-", ".", "/",
     "0", "1", "2", "3", "4", "5", "6", "7", "8", "9", ":", ";", "<", "=", ">", "?",
     "@", "A", "B", "C", "D", "E", "F", "G", "H", "I", "J", "K", "L", "M", "N", "O",
     "P", "Q", "R", "S", "T", "U", "V", "W", "X", "Y", "Z", "[", "\\", "]", "^", "_",
     "GRAVE", "a", "b", "c", "d", "e", "f", "g", "h", "i", "j", "k", "l", "m", "n", "o",
     "p", "q", "r", "s", "t", "u", "v", "w", "x", "y", "z", "{", "|", "}", "~" >>

\* The byte of a character literal; "ESC" stands for the escape byte and
\* "GRAVE" for the grave accent 0x60.
Ord(ch) ==
  IF ch = "ESC" THEN ESC
  ELSE 31 + (CHOOSE i \in 1..Len(Printable) : Printable[i] = ch)

\* The bytes of a string literal.
Str(chars) == [i \in 1..Len(chars) |-> Ord(chars[i])]

\* unicode.IsLetter, IsDigit, IsPrint and IsSpace on a 7-bit character.
IsLetter(c) == c \in 65..90 \/ c \in 97..122
IsDigit(c) == c \in 48..57
IsPrint(c) == c \in 32..126
IsSpace(c) == c \in {9, 10, 11, 12, 13, 32}

(***************************************************************************)
(* Token values: the const pool.  The n-th name has the value -n; a plain   *)
(* character is its own token value.                                        *)
(***************************************************************************)
TokNames ==
  << "Align", "AltKeypad", "Blink", "Bold", "ClearBOL", "ClearBOS", "ClearEOL",
     "ClearEOS", "ClearLine", "ClearScreen", "CursorDn", "CursorHome", "CursorLf",
     "CursorPos", "CursorRt", "CursorUp", "DevStat", "DhBot", "DhTop", "Dwsh",
     "GetCursor", "HvHome", "HvPos", "Ident", "Index", "Invisible", "Led1", "Led2",
     "Led3", "Led4", "LedsOff", "LowInt", "ModesOff", "NextLine", "NumKeypad",
     "Reset", "ResetCol", "ResetInter", "ResetRep", "ResetWrap", "RestoreCursor",
     "Reverse", "RevIndex", "SaveCursor", "SetAltG0", "SetAltG1", "SetAltSpecG0",
     "SetAltSpecG1", "SetAppl", "SetCol", "SetCursor", "SetInter", "SetJump",
     "SetLF", "SetNL", "SetNormScrn", "SetOrgAbs", "SetOrgRel", "SetRep",
     "SetRevScrn", "SetSmooth", "SetSpecG0", "SetSpecG1", "SetSS2", "SetSS3",
     "SetUKG0", "SetUKG1", "SetUSG0", "SetUSG1", "SetVT52", "SetWin", "SetWrap",
     "Swsh", "TabClr", "TabClrAll", "TabSet", "TestLB", "TestLBRep", "TestPU",
     "TestPURep", "Underline" >>

TokVal(name) == -(CHOOSE i \in 1..Len(TokNames) : TokNames[i] = name)

(***************************************************************************)
(* fmt.Sscanf into byte (uint8) operands, as interpTerm uses it.            *)
(***************************************************************************)

\* The characters scanNumber accepts for the verb %d: getBase gives the
\* digit set "0123456789" (the '_' is accepted for the verb %v only).
IsScanDigit(c) == IsDigit(c)

\* The end (exclusive) of the run of %d characters of s that starts at i.
RECURSIVE NumberEnd(_, _)
NumberEnd(s, i) ==
  IF i <= Len(s) /\ IsScanDigit(s[i]) THEN NumberEnd(s, i + 1) ELSE i

\* The value of the decimal digits tok, or 256 for any value above 255.
RECURSIVE ParseUint8(_)
ParseUint8(tok) ==
  IF tok = <<>> THEN 0
  ELSE LET v == 10 * ParseUint8(SubSeq(tok, 1, Len(tok) - 1)) + (tok[Len(tok)] - 48)
       IN  IF v > 255 THEN 256 ELSE v

\* scanUint(verb 'd', bitSize 8) at position i of s: the token is the run of
\* digits, which must be non-empty and fit 8 bits; what follows it is left
\* unread.
scanUint(s, i) ==
  LET e == NumberEnd(s, i)
      tok == SubSeq(s, i, e - 1)
      val == ParseUint8(tok)
      ok == e > i /\ val <= 255
  IN  [ok |-> ok, val |-> IF ok THEN val ELSE 0, next |-> e]

\* fmt.Sscanf(body, "%d", &a): the operands scanned, <<>> on an error.
\* Input after the number is left unread and is no error.
Sscanf1(body) ==
  LET a == scanUint(body, 1)
  IN  IF a.ok THEN <<a.val>> ELSE <<>>

\* Sscanf2 with the two operands stored in the opposite order.
Sscanf2Swapped(body) ==
  LET a == scanUint(body, 1)
      semi == a.ok /\ a.next <= Len(body) /\ body[a.next] = Ord(";")
      b == scanUint(body, a.next + 1)
  IN  IF semi /\ b.ok THEN <<b.val, a.val>> ELSE <<>>

\* fmt.Sscanf(body, "%d;%d", &a, &b): the operands when both were scanned
\* (n = 2, err = nil), <<>> otherwise.
Sscanf2(body) ==
  LET a == scanUint(body, 1)
      semi == a.ok /\ a.next <= Len(body) /\ body[a.next] = Ord(";")
      b == scanUint(body, a.next + 1)
  IN  IF semi /\ b.ok THEN <<a.val, b.val>> ELSE <<>>

(***************************************************************************)
(* The state machine.  l is the lexer's record [seq, params] (a nil slice   *)
(* is the empty sequence; paramCharsAccum is only ever nil and is left      *)
(* out).  A state function yields the next state function's name, the       *)
(* updated fields and the tokens it sent on Output (none or one).           *)
(***************************************************************************)

\* &Token{tv, l.params, l.seq}
send(l, tv) == [Value |-> tv, Params |-> l.params, seq |-> l.seq]

\* A state function's return after sending the tokens sent.
Ret(next, l, sent) ==
  [next |-> next, seq |-> l.seq, params |-> l.params, sent |-> sent]

\* switch key { case <row[1]>: l.send(<row[2]>) ... }: the tokens sent.
Switch(l, cases, key) ==
  LET hit == {i \in 1..Len(cases) : cases[i][1] = key}
  IN  IF hit = {} THEN <<>>
      ELSE <<send(l, TokVal(cases[CHOOSE i \in hit : TRUE][2]))>>

\* ground without its reset of l.params and l.seq.
groundNoReset(l, c) ==
  IF c = ESC
  THEN Ret("intermediateChar", [l EXCEPT !.seq = <<c>>], <<>>)
  ELSE Ret("ground", l, <<send(l, c)>>)

ground(l, c) ==
  LET l0 == [seq |-> <<>>, params |-> <<>>]
  IN  IF c = ESC
      THEN Ret("intermediateChar", [l0 EXCEPT !.seq = <<c>>], <<>>)
      ELSE Ret("ground", l0, <<send(l0, c)>>)

\* The characters after ESC that intermediateChar maps to a token.
intermediateCases ==
  << <<Ord("D"), "Index">>, <<Ord("M"), "RevIndex">>, <<Ord("N"), "SetSS2">>,
     <<Ord("O"), "SetSS3">>, <<Ord("E"), "NextLine">>, <<Ord("7"), "SaveCursor">>,
     <<Ord("8"), "RestoreCursor">>, <<Ord("="), "AltKeypad">>,
     <<Ord(">"), "NumKeypad">>, <<Ord("H"), "TabSet">>, <<Ord("c"), "Reset">> >>

\* escapeDigit that goes on accumulating while digits arrive.
escapeDigitMore(l, c) ==
  LET body == SubSeq(l.seq, 2, Len(l.seq))
  IN  IF IsDigit(c) THEN Ret("escapeDigit", l, <<>>)
      ELSE Ret("ground", l,
               Switch(l, << <<Str(<<"5", "n">>), "DevStat">>,
                            <<Str(<<"6", "n">>), "GetCursor">> >>, body))

escapeDigit(l, c) ==
  LET body == SubSeq(l.seq, 2, Len(l.seq))
  IN  Ret("ground", l,
          Switch(l, << <<Str(<<"5", "n">>), "DevStat">>,
                       <<Str(<<"6", "n">>), "GetCursor">> >>, body))

intermediateChar(l, c) ==
  CASE c = Ord("[") -> Ret("afterLeftSquareBracket", l, <<>>)
    [] c = Ord("(") -> Ret("afterLeftParen", l, <<>>)
    [] c = Ord(")") -> Ret("afterRightParen", l, <<>>)
    [] c = Ord("#") -> Ret("escPound", l, <<>>)
    [] OTHER ->
         LET sent == Switch(l, intermediateCases, c)
         IN  IF sent = <<>> /\ IsDigit(c)
             THEN Ret("escapeDigit", l, <<>>)
             ELSE Ret("ground", l, sent)

hCases ==
  << <<Str(<<"2", "0", "h">>), "SetNL">>,
     <<Str(<<"?", "1", "h">>), "SetAppl">>,
     <<Str(<<"?", "3", "h">>), "SetCol">>,
     <<Str(<<"?", "4", "h">>), "SetSmooth">>,
     <<Str(<<"?", "5", "h">>), "SetRevScrn">>,
     <<Str(<<"?", "6", "h">>), "SetOrgRel">>,
     <<Str(<<"?", "7", "h">>), "SetWrap">>,
     <<Str(<<"?", "8", "h">>), "SetRep">>,
     <<Str(<<"?", "9", "h">>), "SetInter">> >>

lCases ==
  << <<Str(<<"2", "0", "l">>), "SetLF">>,
     <<Str(<<"?", "1", "l">>), "SetCursor">>,
     <<Str(<<"?", "2", "l">>), "SetVT52">>,
     <<Str(<<"?", "3", "l">>), "ResetCol">>,
     <<Str(<<"?", "4", "l">>), "SetJump">>,
     <<Str(<<"?", "5", "l">>), "SetNormScrn">>,
     <<Str(<<"?", "6", "l">>), "SetOrgAbs">>,
     <<Str(<<"?", "7", "l">>), "ResetWrap">>,
     <<Str(<<"?", "8", "l">>), "ResetRep">>,
     <<Str(<<"?", "9", "l">>), "ResetInter">> >>

mCases ==
  << <<Str(<<"m">>), "ModesOff">>,
     <<Str(<<"0", "m">>), "ModesOff">>,
     <<Str(<<"1", "m">>), "Bold">>,
     <<Str(<<"2", "m">>), "LowInt">>,
     <<Str(<<"4", "m">>), "Underline">>,
     <<Str(<<"5", "m">>), "Blink">>,
     <<Str(<<"7", "m">>), "Reverse">>,
     <<Str(<<"8", "m">>), "Invisible">> >>

gCases ==
  << <<Str(<<"g">>), "TabClr">>,
     <<Str(<<"0", "g">>), "TabClr">>,
     <<Str(<<"3", "g">>), "TabClrAll">> >>

KCases ==
  << <<Str(<<"K">>), "ClearEOL">>,
     <<Str(<<"0", "K">>), "ClearEOL">>,
     <<Str(<<"1", "K">>), "ClearBOL">>,
     <<Str(<<"2", "K">>), "ClearLine">> >>

JCases ==
  << <<Str(<<"J">>), "ClearEOS">>,
     <<Str(<<"0", "J">>), "ClearEOS">>,
     <<Str(<<"1", "J">>), "ClearBOS">>,
     <<Str(<<"2", "J">>), "ClearScreen">> >>

cCases ==
  << <<Str(<<"c">>), "Ident">>,
     <<Str(<<"0", "c">>), "Ident">> >>

yCases ==
  << <<Str(<<"2", ";", "1", "y">>), "TestPU">>,
     <<Str(<<"2", ";", "2", "y">>), "TestLB">>,
     <<Str(<<"2", ";", "9", "y">>), "TestPURep">>,
     <<Str(<<"2", ";", "1", "0", "y">>), "TestLBRep">> >>

qCases ==
  << <<Str(<<"0", "q">>), "LedsOff">>,
     <<Str(<<"1", "q">>), "Led1">>,
     <<Str(<<"2", "q">>), "Led2">>,
     <<Str(<<"3", "q">>), "Led3">>,
     <<Str(<<"4", "q">>), "Led4">> >>

\* The cases of interpTerm that scan numbers: when Sscanf scanned every
\* operand, l.params is set to them and the token name is sent.
SendScanned(l, scanned, name) ==
  IF scanned = <<>> THEN Ret("ground", l, <<>>)
  ELSE LET lp == [l EXCEPT !.params = scanned]
       IN  Ret("ground", lp, <<send(lp, TokVal(name))>>)

\* The cases 'H' and 'f': the two home bodies, or a position.
HomeOrPos(l, body, c, home, pos) ==
  IF body = <<c>> \/ body = <<Ord(";"), c>>
  THEN Ret("ground", l, <<send(l, TokVal(home))>>)
  ELSE SendScanned(l, Sscanf2(body), pos)

\* interpret terminator Letter character
interpTerm(l, c) ==
  LET body == SubSeq(l.seq, 3, Len(l.seq))
  IN  CASE c = Ord("h") -> Ret("ground", l, Switch(l, hCases, body))
        [] c = Ord("l") -> Ret("ground", l, Switch(l, lCases, body))
        [] c = Ord("m") -> Ret("ground", l, Switch(l, mCases, body))
        [] c = Ord("r") -> SendScanned(l, Sscanf2(body), "SetWin")
        [] c = Ord("A") -> SendScanned(l, Sscanf1(body), "CursorUp")
        [] c = Ord("B") -> SendScanned(l, Sscanf1(body), "CursorDn")
        [] c = Ord("C") -> SendScanned(l, Sscanf1(body), "CursorRt")
        [] c = Ord("D") -> SendScanned(l, Sscanf1(body), "CursorLf")
        [] c = Ord("H") -> HomeOrPos(l, body, c, "CursorHome", "CursorPos")
        [] c = Ord("f") -> HomeOrPos(l, body, c, "HvHome", "HvPos")
        [] c = Ord("g") -> Ret("ground", l, Switch(l, gCases, body))
        [] c = Ord("K") -> Ret("ground", l, Switch(l, KCases, body))
        [] c = Ord("J") -> Ret("ground", l, Switch(l, JCases, body))
        [] c = Ord("c") -> Ret("ground", l, Switch(l, cCases, body))
        [] c = Ord("y") -> Ret("ground", l, Switch(l, yCases, body))
        [] c = Ord("q") -> Ret("ground", l, Switch(l, qCases, body))
        [] OTHER -> Ret("ground", l, <<>>)

\* afterLeftSquareBracket in which ESC begins a new sequence.
afterLeftSquareBracketRestart(l, c) ==
  CASE c = ESC -> Ret("intermediateChar", [l EXCEPT !.seq = <<c>>], <<>>)
    [] IsLetter(c) -> interpTerm(l, c)
    [] c # ESC /\ ~IsLetter(c) /\ IsPrint(c) /\ ~IsSpace(c) ->
         Ret("afterLeftSquareBracket", l, <<>>)
    [] OTHER -> Ret("ground", l, <<>>)

afterLeftSquareBracket(l, c) ==
  CASE IsLetter(c) -> interpTerm(l, c)
    [] ~IsLetter(c) /\ IsPrint(c) /\ ~IsSpace(c) ->
         Ret("afterLeftSquareBracket", l, <<>>)
    [] OTHER -> Ret("ground", l, <<>>)

escPound(l, c) ==
  Ret("ground", l,
      Switch(l, << <<Ord("3"), "DhTop">>, <<Ord("4"), "DhBot">>,
                   <<Ord("5"), "Swsh">>, <<Ord("6"), "Dwsh">>,
                   <<Ord("8"), "Align">> >>, c))

afterLeftParen(l, c) ==
  Ret("ground", l,
      Switch(l, << <<Ord("A"), "SetUKG0">>, <<Ord("B"), "SetUSG0">>,
                   <<Ord("0"), "SetSpecG0">>, <<Ord("1"), "SetAltG0">>,
                   <<Ord("2"), "SetAltSpecG0">> >>, c))

afterRightParen(l, c) ==
  Ret("ground", l,
      Switch(l, << <<Ord("A"), "SetUKG1">>, <<Ord("B"), "SetUSG1">>,
                   <<Ord("0"), "SetSpecG1">>, <<Ord("1"), "SetAltG1">>,
                   <<Ord("2"), "SetAltSpecG1">> >>, c))

\* state(c): the call of the state function named st.
stateFn(st, l, c) ==
  CASE st = "ground" -> ground(l, c)
    [] st = "intermediateChar" -> intermediateChar(l, c)
    [] st = "afterLeftSquareBracket" -> afterLeftSquareBracket(l, c)
    [] st = "afterLeftParen" -> afterLeftParen(l, c)
    [] st = "afterRightParen" -> afterRightParen(l, c)
    [] st = "escPound" -> escPound(l, c)
    [] st = "escapeDigit" -> escapeDigit(l, c)

\* run without the mask.
MaskNone(c) == c

\* c &= 0x7f
Mask(c) == c % 128

\* One turn of run's loop on the received byte raw: mask it, append it to a
\* non-nil l.seq, call the state function.
runByte(st, l, raw) ==
  LET c == Mask(raw)
      l1 == IF l.seq # <<>> THEN [l EXCEPT !.seq = Append(@, c)] ELSE l
  IN  stateFn(st, l1, c)

\* The lexer run on a whole byte sequence from state x = [next, seq, params,
\* sent]: sent accumulates every token sent, in order.
RECURSIVE runFrom(_, _)
runFrom(x, bytes) ==
  IF bytes = <<>> THEN x
  ELSE LET r == runByte(x.next, [seq |-> x.seq, params |-> x.params], Head(bytes))
       IN  runFrom([r EXCEPT !.sent = x.sent \o r.sent], Tail(bytes))

\* A lexer as NewLexer leaves it: in ground, nothing accumulated.
Fresh == [next |-> "ground", seq |-> <<>>, params |-> <<>>, sent |-> <<>>]

\* The tokens a fresh lexer sends for the byte sequence bytes.
Lex(bytes) == runFrom(Fresh, bytes).sent

(***************************************************************************)
(* The running lexer: the channels of NewLexer, the worker goroutine run,   *)
(* and the goroutines that call SendChar, GetToken and Rundown.             *)
(***************************************************************************)

Feeders == {"f1", "f2"}
Readers == {"r1", "r2"}

VARIABLES
  state,     \* run's local state: the name of the next state function
  seq,       \* l.seq
  params,    \* l.params
  input,     \* the bytes buffered in l.input
  Output,    \* the tokens buffered in l.Output
  closed,    \* the channels closed so far
  wg,        \* the counter of l.wg
  wpc,       \* the worker: "select", "send" (inside l.send) or "exited"
  wsend,     \* the worker inside l.send: <<[tok, ret]>>, else <<>>
  script,    \* script[f]: the bytes caller f passes to SendChar, in order
  fpos,      \* fpos[f]: how many of them SendChar has accepted
  calls,     \* calls[r]: how many times caller r calls GetToken
  waiting,   \* the callers inside GetToken
  got,       \* got[r]: what GetToken returned to caller r, in order
  rpc,       \* the caller of Rundown: its position in Rundown
  crashed,   \* a goroutine panicked (send on a closed channel)
  tpc,       \* the random test of TestVT: its position ("off": not run)
  ti,        \* its loop counter i
  consumed,  \* history: the bytes the worker received from l.input
  delivered  \* history: the tokens the worker put on l.Output

lexer == <<state, seq, params>>
chans == <<input, Output, closed>>
worker == <<wg, wpc, wsend>>
scenario == <<script, calls>>
callers == <<fpos, waiting, got>>
test == <<tpc, ti>>
hist == <<consumed, delivered>>
vars == <<lexer, chans, worker, scenario, callers, rpc, crashed, test, hist>>

\* GetToken's result on a closed, drained Output: the nil pointer.
Nil == [Value |-> 0, Params |-> <<>>, seq |-> <<"nil">>]

\* NewLexer: empty open channels, the worker started at its select in ground.
NewLexer ==
  /\ state = "ground" /\ seq = <<>> /\ params = <<>>
  /\ input = <<>> /\ Output = <<>> /\ closed = {}
  /\ wg = 1 /\ wpc = "select" /\ wsend = <<>>
  /\ crashed = FALSE
  /\ consumed = <<>> /\ delivered = <<>>

\* No goroutine runs after a panic.
Running == ~crashed

(***************************************************************************)
(* run                                                                      *)
(***************************************************************************)

\* A worker whose loop starts every byte in ground.
RunReceiveGround ==
  /\ Running /\ wpc = "select" /\ input # <<>>
  /\ LET r == runByte("ground", [seq |-> seq, params |-> params], Head(input))
     IN  /\ input' = Tail(input)
         /\ seq' = r.seq
         /\ params' = r.params
         /\ IF r.sent = <<>>
            THEN /\ state' = r.next
                 /\ UNCHANGED <<wpc, wsend>>
            ELSE /\ wpc' = "send"
                 /\ wsend' = <<[tok |-> r.sent[1], ret |-> r.next]>>
                 /\ UNCHANGED state
  /\ UNCHANGED <<Output, closed, wg, scenario, callers, rpc, crashed, test>>

\* case c := <-l.input, up to the state function's return or its l.send.
RunReceive ==
  /\ Running /\ wpc = "select" /\ input # <<>>
  /\ LET r == runByte(state, [seq |-> seq, params |-> params], Head(input))
     IN  /\ input' = Tail(input)
         /\ seq' = r.seq
         /\ params' = r.params
         /\ IF r.sent = <<>>
            THEN /\ state' = r.next
                 /\ UNCHANGED <<wpc, wsend>>
            ELSE /\ wpc' = "send"
                 /\ wsend' = <<[tok |-> r.sent[1], ret |-> r.next]>>
                 /\ UNCHANGED state
  /\ UNCHANGED <<Output, closed, wg, scenario, callers, rpc, crashed, test>>

\* l.send that puts the token in front of the tokens already buffered.
RunSendFront ==
  /\ Running /\ wpc = "send" /\ Len(Output) < OutputCap
  /\ Output' = <<wsend[1].tok>> \o Output
  /\ state' = wsend[1].ret
  /\ wpc' = "select"
  /\ wsend' = <<>>
  /\ UNCHANGED <<seq, params, input, closed, wg, scenario, callers, rpc,
                 crashed, test>>

\* l.send that returns without sending.
RunSendDrop ==
  /\ Running /\ wpc = "send"
  /\ state' = wsend[1].ret
  /\ wpc' = "select"
  /\ wsend' = <<>>
  /\ UNCHANGED <<seq, params, chans, wg, scenario, callers, rpc, crashed, test>>

\* l.Output <- &Token{...}: blocks while Output is full; then the state
\* function returns.
RunSend ==
  /\ Running /\ wpc = "send" /\ Len(Output) < OutputCap
  /\ Output' = Append(Output, wsend[1].tok)
  /\ state' = wsend[1].ret
  /\ wpc' = "select"
  /\ wsend' = <<>>
  /\ UNCHANGED <<seq, params, input, closed, wg, scenario, callers, rpc,
                 crashed, test>>

\* The two steps above with the histories kept.
Receive ==
  /\ RunReceive
  /\ consumed' = Append(consumed, Head(input))
  /\ UNCHANGED delivered

Send ==
  /\ RunSend
  /\ delivered' = Append(delivered, wsend[1].tok)
  /\ UNCHANGED consumed

\* A worker that takes the shutdown signal inside l.send too, giving up the
\* token it holds.
StopInSend ==
  /\ Running /\ wpc \in {"select", "send"} /\ rpc = "signal"
  /\ wpc' = "exited"
  /\ wsend' = <<>>
  /\ wg' = wg - 1
  /\ rpc' = "wait"
  /\ UNCHANGED <<lexer, chans, scenario, callers, crashed, test, hist>>

\* case <-l.rundown: return, and the deferred l.wg.Done().  The channel is
\* unbuffered: the receive is the moment Rundown's send completes.
Stop ==
  /\ Running /\ wpc = "select" /\ rpc = "signal"
  /\ wpc' = "exited"
  /\ wg' = wg - 1
  /\ rpc' = "wait"
  /\ UNCHANGED <<lexer, chans, wsend, scenario, callers, crashed, test, hist>>

(***************************************************************************)
(* SendChar, GetToken, Rundown                                              *)
(***************************************************************************)

\* SendChar that puts the byte in front of the bytes already buffered.
SendCharFront(f) ==
  /\ Running /\ fpos[f] < Len(script[f])
  /\ "input" \notin closed /\ Len(input) < InputCap
  /\ input' = <<script[f][fpos[f] + 1]>> \o input
  /\ fpos' = [fpos EXCEPT ![f] = @ + 1]
  /\ UNCHANGED <<lexer, Output, closed, worker, scenario, waiting, got, rpc,
                 crashed, test, hist>>

\* l.input <- c by caller f: blocks while the channel is full.
SendChar(f) ==
  /\ Running /\ fpos[f] < Len(script[f])
  /\ "input" \notin closed /\ Len(input) < InputCap
  /\ input' = Append(input, script[f][fpos[f] + 1])
  /\ fpos' = [fpos EXCEPT ![f] = @ + 1]
  /\ UNCHANGED <<lexer, Output, closed, worker, scenario, waiting, got, rpc,
                 crashed, test, hist>>

\* l.input <- c on the closed channel: panic.
SendClosed(f) ==
  /\ Running /\ fpos[f] < Len(script[f])
  /\ "input" \in closed
  /\ crashed' = TRUE
  /\ UNCHANGED <<lexer, chans, worker, scenario, callers, rpc, test, hist>>

\* Caller r enters GetToken.
GetToken(r) ==
  /\ Running /\ r \notin waiting
  /\ Len(got[r]) < calls[r]
  /\ waiting' = waiting \cup {r}
  /\ UNCHANGED <<lexer, chans, worker, scenario, fpos, got, rpc, crashed, test, hist>>

\* GetToken that leaves the token it returns in the channel.
ReturnPeek(r) ==
  /\ Running /\ r \in waiting
  /\ Output # <<>>
  /\ got' = [got EXCEPT ![r] = Append(@, Head(Output))]
  /\ waiting' = waiting \ {r}
  /\ UNCHANGED <<lexer, chans, worker, scenario, fpos, rpc, crashed, test, hist>>

\* return <-l.Output: a buffered token, or nil once Output is closed and empty.
Return(r) ==
  /\ Running /\ r \in waiting
  /\ \/ /\ Output # <<>>
        /\ got' = [got EXCEPT ![r] = Append(@, Head(Output))]
        /\ Output' = Tail(Output)
     \/ /\ Output = <<>> /\ "Output" \in closed
        /\ got' = [got EXCEPT ![r] = Append(@, Nil)]
        /\ UNCHANGED Output
  /\ waiting' = waiting \ {r}
  /\ UNCHANGED <<lexer, input, closed, worker, scenario, fpos, rpc, crashed, test, hist>>

\* Rundown is called: its caller is at l.rundown <- struct{}{}.
Rundown ==
  /\ Running /\ rpc = "idle" /\ tpc \in {"off", "rundown"}
  /\ rpc' = "signal"
  /\ UNCHANGED <<lexer, chans, worker, scenario, callers, crashed, test, hist>>

\* l.wg.Wait() returns.
Wait ==
  /\ Running /\ rpc = "wait" /\ wg = 0
  /\ rpc' = "closeInput"
  /\ UNCHANGED <<lexer, chans, worker, scenario, callers, crashed, test, hist>>

\* close(l.input); close(l.Output); close(l.rundown)
Close ==
  /\ Running /\ rpc \in {"closeInput", "closeOutput", "closeRundown"}
  /\ closed' = closed \cup {CASE rpc = "closeInput" -> "input"
                              [] rpc = "closeOutput" -> "Output"
                              [] rpc = "closeRundown" -> "rundown"}
  /\ rpc' = CASE rpc = "closeInput" -> "closeOutput"
              [] rpc = "closeOutput" -> "closeRundown"
              [] rpc = "closeRundown" -> "done"
  /\ UNCHANGED <<lexer, input, Output, worker, scenario, callers, crashed, test, hist>>

(***************************************************************************)
(* The random test of TestVT: turn after turn "ESC [ when bit 2 of the      *)
(* loop counter is set, a random byte, one non-blocking poll of Output",    *)
(* then the drain loop and Rundown.                                         *)
(***************************************************************************)

\* for i := 0; i < 1000000; i++
Turns == 1000000

\* The values of c := byte(rand.Int()): any byte.
RandBytes == 0..255

\* vtlx.SendChar(0x1b), vtlx.SendChar('['), vtlx.SendChar(c)
TestSendChar ==
  /\ Running /\ tpc \in {"esc", "bracket", "rand"}
  /\ "input" \notin closed /\ Len(input) < InputCap
  /\ \E c \in (CASE tpc = "esc" -> {ESC}
                 [] tpc = "bracket" -> {Ord("[")}
                 [] tpc = "rand" -> RandBytes) :
       input' = Append(input, c)
  /\ tpc' = CASE tpc = "esc" -> "bracket"
              [] tpc = "bracket" -> "rand"
              [] tpc = "rand" -> "poll"
  /\ UNCHANGED <<lexer, Output, closed, worker, scenario, callers, rpc,
                 crashed, ti, hist>>

\* select { case <-vtlx.Output: default: }, then i++ and the loop's test
\* i < 1000000 and, in the next turn, (i & 0x4) != 0.
TestPoll ==
  /\ Running /\ tpc = "poll"
  /\ Output' = IF Output # <<>> THEN Tail(Output) ELSE Output
  /\ ti' = ti + 1
  /\ tpc' = IF ti' >= Turns THEN "drain"
            ELSE IF (ti' \div 4) % 2 = 1 THEN "esc"
            ELSE "rand"
  /\ UNCHANGED <<lexer, input, closed, worker, scenario, callers, rpc,
                 crashed, hist>>

\* for { select { case <-vtlx.Output: case <-time.After(...): goto done } }
\* The timer may fire whether a token is buffered or not.
TestDrain ==
  /\ Running /\ tpc = "drain"
  /\ \/ Output # <<>> /\ Output' = Tail(Output) /\ UNCHANGED tpc
     \/ tpc' = "rundown" /\ UNCHANGED Output
  /\ UNCHANGED <<lexer, input, closed, worker, scenario, callers, rpc,
                 crashed, ti, hist>>

\* The worker's steps in the random test, where no history is kept.
TestReceive == RunReceive /\ UNCHANGED hist
TestSend == RunSend /\ UNCHANGED hist

(***************************************************************************)
(* Scenarios and specifications                                             *)
(***************************************************************************)

\* The callers before their first call: scripts s1 and s2 to feed, n1 and
\* n2 calls of GetToken to make.
Callers(s1, s2, n1, n2) ==
  /\ script = [f \in Feeders |-> IF f = "f1" THEN s1 ELSE s2]
  /\ calls = [r \in Readers |-> IF r = "r1" THEN n1 ELSE n2]
  /\ fpos = [f \in Feeders |-> 0]
  /\ waiting = {}
  /\ got = [r \in Readers |-> <<>>]
  /\ rpc = "idle"

\* The (sequence, token value) pairs of TestVT.
TestVT ==
  <<
    [seq |-> Str(<<"A">>), val |-> Ord("A")],
    [seq |-> Str(<<"ESC", "[", "H">>), val |-> TokVal("CursorHome")],
    [seq |-> Str(<<"ESC", "[", "2", "0", "h">>), val |-> TokVal("SetNL")],
    [seq |-> Str(<<"ESC", "[", "?", "1", "h">>), val |-> TokVal("SetAppl")],
    [seq |-> Str(<<"ESC", "[", "?", "3", "h">>), val |-> TokVal("SetCol")],
    [seq |-> Str(<<"ESC", "[", "?", "4", "h">>), val |-> TokVal("SetSmooth")],
    [seq |-> Str(<<"ESC", "[", "?", "5", "h">>), val |-> TokVal("SetRevScrn")],
    [seq |-> Str(<<"ESC", "[", "?", "6", "h">>), val |-> TokVal("SetOrgRel")],
    [seq |-> Str(<<"ESC", "[", "?", "7", "h">>), val |-> TokVal("SetWrap")],
    [seq |-> Str(<<"ESC", "[", "?", "8", "h">>), val |-> TokVal("SetRep")],
    [seq |-> Str(<<"ESC", "[", "?", "9", "h">>), val |-> TokVal("SetInter")],
    [seq |-> Str(<<"ESC", "[", "2", "0", "l">>), val |-> TokVal("SetLF")],
    [seq |-> Str(<<"ESC", "[", "?", "1", "l">>), val |-> TokVal("SetCursor")],
    [seq |-> Str(<<"ESC", "[", "?", "2", "l">>), val |-> TokVal("SetVT52")],
    [seq |-> Str(<<"ESC", "[", "?", "3", "l">>), val |-> TokVal("ResetCol")],
    [seq |-> Str(<<"ESC", "[", "?", "4", "l">>), val |-> TokVal("SetJump")],
    [seq |-> Str(<<"ESC", "[", "?", "5", "l">>), val |-> TokVal("SetNormScrn")],
    [seq |-> Str(<<"ESC", "[", "?", "6", "l">>), val |-> TokVal("SetOrgAbs")],
    [seq |-> Str(<<"ESC", "[", "?", "7", "l">>), val |-> TokVal("ResetWrap")],
    [seq |-> Str(<<"ESC", "[", "?", "8", "l">>), val |-> TokVal("ResetRep")],
    [seq |-> Str(<<"ESC", "[", "?", "9", "l">>), val |-> TokVal("ResetInter")],
    [seq |-> Str(<<"ESC", "=">>), val |-> TokVal("AltKeypad")],
    [seq |-> Str(<<"ESC", ">">>), val |-> TokVal("NumKeypad")],
    [seq |-> Str(<<"ESC", "(", "A">>), val |-> TokVal("SetUKG0")],
    [seq |-> Str(<<"ESC", ")", "A">>), val |-> TokVal("SetUKG1")],
    [seq |-> Str(<<"ESC", "(", "B">>), val |-> TokVal("SetUSG0")],
    [seq |-> Str(<<"ESC", ")", "B">>), val |-> TokVal("SetUSG1")],
    [seq |-> Str(<<"ESC", "(", "0">>), val |-> TokVal("SetSpecG0")],
    [seq |-> Str(<<"ESC", ")", "0">>), val |-> TokVal("SetSpecG1")],
    [seq |-> Str(<<"ESC", "(", "1">>), val |-> TokVal("SetAltG0")],
    [seq |-> Str(<<"ESC", ")", "1">>), val |-> TokVal("SetAltG1")],
    [seq |-> Str(<<"ESC", "(", "2">>), val |-> TokVal("SetAltSpecG0")],
    [seq |-> Str(<<"ESC", ")", "2">>), val |-> TokVal("SetAltSpecG1")],
    [seq |-> Str(<<"ESC", "N">>), val |-> TokVal("SetSS2")],
    [seq |-> Str(<<"ESC", "O">>), val |-> TokVal("SetSS3")],
    [seq |-> Str(<<"ESC", "[", "m">>), val |-> TokVal("ModesOff")],
    [seq |-> Str(<<"ESC", "[", "0", "m">>), val |-> TokVal("ModesOff")],
    [seq |-> Str(<<"ESC", "[", "1", "m">>), val |-> TokVal("Bold")],
    [seq |-> Str(<<"ESC", "[", "2", "m">>), val |-> TokVal("LowInt")],
    [seq |-> Str(<<"ESC", "[", "4", "m">>), val |-> TokVal("Underline")],
    [seq |-> Str(<<"ESC", "[", "5", "m">>), val |-> TokVal("Blink")],
    [seq |-> Str(<<"ESC", "[", "7", "m">>), val |-> TokVal("Reverse")],
    [seq |-> Str(<<"ESC", "[", "8", "m">>), val |-> TokVal("Invisible")],
    [seq |-> Str(<<"ESC", "[", "1", "3", ";", "1", "7", "r">>), val |-> TokVal("SetWin")],
    [seq |-> Str(<<"ESC", "[", "3", "A">>), val |-> TokVal("CursorUp")],
    [seq |-> Str(<<"ESC", "[", "4", "B">>), val |-> TokVal("CursorDn")],
    [seq |-> Str(<<"ESC", "[", "5", "C">>), val |-> TokVal("CursorRt")],
    [seq |-> Str(<<"ESC", "[", "6", "D">>), val |-> TokVal("CursorLf")],
    [seq |-> Str(<<"ESC", "[", "H">>), val |-> TokVal("CursorHome")],
    [seq |-> Str(<<"ESC", "[", ";", "H">>), val |-> TokVal("CursorHome")],
    [seq |-> Str(<<"ESC", "[", "1", "3", ";", "1", "7", "H">>), val |-> TokVal("CursorPos")],
    [seq |-> Str(<<"ESC", "[", "f">>), val |-> TokVal("HvHome")],
    [seq |-> Str(<<"ESC", "[", ";", "f">>), val |-> TokVal("HvHome")],
    [seq |-> Str(<<"ESC", "[", "1", "3", ";", "1", "7", "f">>), val |-> TokVal("HvPos")],
    [seq |-> Str(<<"ESC", "D">>), val |-> TokVal("Index")],
    [seq |-> Str(<<"ESC", "M">>), val |-> TokVal("RevIndex")],
    [seq |-> Str(<<"ESC", "E">>), val |-> TokVal("NextLine")],
    [seq |-> Str(<<"ESC", "7">>), val |-> TokVal("SaveCursor")],
    [seq |-> Str(<<"ESC", "8">>), val |-> TokVal("RestoreCursor")],
    [seq |-> Str(<<"ESC", "H">>), val |-> TokVal("TabSet")],
    [seq |-> Str(<<"ESC", "[", "g">>), val |-> TokVal("TabClr")],
    [seq |-> Str(<<"ESC", "[", "0", "g">>), val |-> TokVal("TabClr")],
    [seq |-> Str(<<"ESC", "[", "3", "g">>), val |-> TokVal("TabClrAll")],
    [seq |-> Str(<<"ESC", "#", "3">>), val |-> TokVal("DhTop")],
    [seq |-> Str(<<"ESC", "#", "4">>), val |-> TokVal("DhBot")],
    [seq |-> Str(<<"ESC", "#", "5">>), val |-> TokVal("Swsh")],
    [seq |-> Str(<<"ESC", "#", "6">>), val |-> TokVal("Dwsh")],
    [seq |-> Str(<<"ESC", "[", "K">>), val |-> TokVal("ClearEOL")],
    [seq |-> Str(<<"ESC", "[", "0", "K">>), val |-> TokVal("ClearEOL")],
    [seq |-> Str(<<"ESC", "[", "1", "K">>), val |-> TokVal("ClearBOL")],
    [seq |-> Str(<<"ESC", "[", "2", "K">>), val |-> TokVal("ClearLine")],
    [seq |-> Str(<<"ESC", "[", "J">>), val |-> TokVal("ClearEOS")],
    [seq |-> Str(<<"ESC", "[", "0", "J">>), val |-> TokVal("ClearEOS")],
    [seq |-> Str(<<"ESC", "[", "1", "J">>), val |-> TokVal("ClearBOS")],
    [seq |-> Str(<<"ESC", "[", "2", "J">>), val |-> TokVal("ClearScreen")],
    [seq |-> Str(<<"ESC", "5", "n">>), val |-> TokVal("DevStat")],
    [seq |-> Str(<<"ESC", "6", "n">>), val |-> TokVal("GetCursor")],
    [seq |-> Str(<<"ESC", "[", "c">>), val |-> TokVal("Ident")],
    [seq |-> Str(<<"ESC", "[", "0", "c">>), val |-> TokVal("Ident")],
    [seq |-> Str(<<"ESC", "c">>), val |-> TokVal("Reset")],
    [seq |-> Str(<<"ESC", "#", "8">>), val |-> TokVal("Align")],
    [seq |-> Str(<<"ESC", "[", "2", ";", "1", "y">>), val |-> TokVal("TestPU")],
    [seq |-> Str(<<"ESC", "[", "2", ";", "2", "y">>), val |-> TokVal("TestLB")],
    [seq |-> Str(<<"ESC", "[", "2", ";", "9", "y">>), val |-> TokVal("TestPURep")],
    [seq |-> Str(<<"ESC", "[", "2", ";", "1", "0", "y">>), val |-> TokVal("TestLBRep")],
    [seq |-> Str(<<"ESC", "[", "0", "q">>), val |-> TokVal("LedsOff")],
    [seq |-> Str(<<"ESC", "[", "1", "q">>), val |-> TokVal("Led1")],
    [seq |-> Str(<<"ESC", "[", "2", "q">>), val |-> TokVal("Led2")],
    [seq |-> Str(<<"ESC", "[", "3", "q">>), val |-> TokVal("Led3")],
    [seq |-> Str(<<"ESC", "[", "4", "q">>), val |-> TokVal("Led4")]
  >>

\* The byte sequences of length n over the set of bytes alphabet.
RECURSIVE Strings(_, _)
Strings(alphabet, n) ==
  IF n = 0 THEN {<<>>}
  ELSE {Append(s, c) : s \in Strings(alphabet, n - 1), c \in alphabet}

\* The sequence s with the high bit set in the bytes at the positions in hi.
SetHigh(s, hi) == [i \in 1..Len(s) |-> IF i \in hi THEN s[i] + 128 ELSE s[i]]

\* Bound: the longest of the arbitrary byte sequences tried.
MaxLen == 4

\* Bound: the longest run of body characters between ESC [ and the
\* terminator in the sequences tried against the grammar.
MaxBody == 3

\* The bytes they are made of: ESC, '[', a digit, ';', two terminators, a
\* space, and ESC with the high bit set.
LexAlphabet ==
  {ESC, Ord("["), Ord("3"), Ord(";"), Ord("A"), Ord("H"), Ord(" "), 128 + ESC}

\* Sequences fed right after another one: a plain character, a sequence
\* without and one with parameters.
Followers ==
  {Str(<<"A">>), Str(<<"ESC", "[", "H">>), Str(<<"ESC", "(", "A">>),
   Str(<<"ESC", "[", "4", "B">>)}

\* ESC-introduced sequences as the machine delimits them: ESC [, up to
\* MaxBody body characters and a letter; ESC and one character; ESC, one of
\* # ( ) or a digit, and one character.
BodyChars == {Ord("3"), Ord(";"), Ord("?")}
Letters == {Ord("A"), Ord("H"), Ord("h"), Ord("r"), Ord("z")}
AfterEsc == {Ord("D"), Ord("z"), Ord("~"), Ord("n"), Ord("8"), ESC}
EscSequences ==
  {<<ESC, Ord("[")>> \o b \o <<t>> :
     b \in UNION {Strings(BodyChars, n) : n \in 0..MaxBody}, t \in Letters}
    \cup {<<ESC, c>> : c \in AfterEsc}
    \cup {<<ESC, i, c>> :
            i \in {Ord("#"), Ord("("), Ord(")"), Ord("5")}, c \in AfterEsc}

\* Whether s is one of EscSequences.
IsEscSequence(s) ==
  /\ Len(s) >= 2 /\ s[1] = ESC
  /\ \/ Len(s) = 2 /\ s[2] \in AfterEsc
     \/ /\ Len(s) = 3
        /\ s[2] \in {Ord("#"), Ord("("), Ord(")"), Ord("5")}
        /\ s[3] \in AfterEsc
     \/ /\ Len(s) \in 3..(3 + MaxBody)
        /\ s[2] = Ord("[")
        /\ s[Len(s)] \in Letters
        /\ \A k \in 3..(Len(s) - 1) : s[k] \in BodyChars

\* The sequences fed to a fresh lexer by one caller: every sequence of
\* TestVT with the high bit set in any of its leading bytes, every short
\* sequence over LexAlphabet, and every sequence of TestVT and of
\* EscSequences with a follower.
LexInputs ==
  {SetHigh(TestVT[i].seq, hi) :
     i \in 1..Len(TestVT), hi \in SUBSET (1..4)}
    \cup UNION {Strings(LexAlphabet, n) : n \in 0..MaxLen}
    \cup {TestVT[i].seq \o t : i \in 1..Len(TestVT), t \in Followers}
    \cup {s \o t : s \in EscSequences, t \in Followers}

\* The steps of a live lexer and its callers.
NextPipe ==
  \/ \E f \in Feeders : SendChar(f)
  \/ Receive
  \/ Send
  \/ \E r \in Readers : GetToken(r) \/ Return(r)

\* One caller feeds one sequence and reads one token, as transact does.
InitLex ==
  /\ NewLexer
  /\ \E s \in LexInputs : Callers(s, <<>>, 1, 0)
  /\ tpc = "off" /\ ti = 0

SpecLex == InitLex /\ [][NextPipe]_vars

\* The random test at the top of its loop.
InitRandom ==
  /\ NewLexer
  /\ Callers(<<>>, <<>>, 0, 0)
  /\ tpc = "rand" /\ ti = 0

NextRandom ==
  \/ TestSendChar \/ TestPoll \/ TestDrain
  \/ TestReceive \/ TestSend
  \/ Rundown \/ Stop \/ Wait \/ Close

SpecRandom == InitRandom /\ [][NextRandom]_vars

\* A script long enough to fill both channels when nobody reads: distinct
\* plain characters, one more than Output, the worker's hand and the inbound
\* channel hold together.
LongScript == [i \in 1..(InputCap + OutputCap + 2) |-> Ord("A") - 1 + i]

\* The callers of a live lexer: one caller feeding two different sequences
\* back to back to one reader; two callers feeding at once, to one reader and
\* to two; and a caller feeding LongScript beside a second one, to no reader.
InitPipe ==
  /\ NewLexer
  /\ \/ \E a \in Followers, b \in Followers :
          a # b /\ Callers(a \o b, <<>>, 2, 0)
     \/ Callers(Str(<<"ESC", "[", "H">>), Str(<<"4", "B">>), 3, 0)
     \/ Callers(Str(<<"x", "y", "z">>), Str(<<"ESC", "7">>), 2, 2)
     \/ Callers(LongScript, Str(<<"x", "y">>), 0, 0)
  /\ tpc = "off" /\ ti = 0

SpecPipe == InitPipe /\ [][NextPipe]_vars

\* The scheduler runs every goroutine that can take a step: the worker, and
\* the callers that are inside or about to call GetToken.
FairPipe ==
  /\ WF_vars(Receive)
  /\ WF_vars(Send)
  /\ \A r \in Readers : WF_vars(GetToken(r)) /\ WF_vars(Return(r))

SpecPipeFair == SpecPipe /\ FairPipe

\* A lexer that is run down at any moment: a caller feeding LongScript to no
\* reader, and two callers feeding to one reader.
InitDown ==
  /\ NewLexer
  /\ \/ Callers(LongScript, <<>>, 0, 0)
     \/ Callers(Str(<<"ESC", "[", "H">>), Str(<<"A">>), 2, 0)
  /\ tpc = "off" /\ ti = 0

NextDown ==
  \/ \E f \in Feeders : SendChar(f) \/ SendClosed(f)
  \/ Receive
  \/ Send
  \/ \E r \in Readers : GetToken(r) \/ Return(r)
  \/ Rundown \/ Stop \/ Wait \/ Close

SpecDown == InitDown /\ [][NextDown]_vars

(***************************************************************************)
(* Claims about the state machine, under every scheduling (SpecLex)        *)
(***************************************************************************)

\* The byte sequence fed, and its end: the worker has received every byte
\* of it and is back at its select.
Stream == script["f1"]
AtEnd == Len(consumed) = Len(Stream) /\ wpc = "select"

\* The token the worker holds inside l.send, if any.
InHand == [i \in 1..Len(wsend) |-> wsend[i].tok]

\* The tokens the state functions have created: those sent and the one in
\* hand.
Made == delivered \o InHand

\* The state function run calls for the next byte: inside l.send, the one
\* the current state function is about to return.
Where == IF wpc = "send" THEN wsend[1].ret ELSE state

\* Run has just received a byte.
ByteTaken == consumed' # consumed

\* The low seven bits of every byte of s.
Low7(s) == [i \in 1..Len(s) |-> s[i] % 128]

\* The values and the parameters of the tokens ts.
Values(ts) == [i \in 1..Len(ts) |-> ts[i].Value]
ValuesParams(ts) == [i \in 1..Len(ts) |-> <<ts[i].Value, ts[i].Params>>]

\* The numbers written in the sequences of TestVT that carry parameters.
TestParams(tc) ==
  CASE tc.val \in {TokVal("SetWin"), TokVal("CursorPos"), TokVal("HvPos")} ->
         <<13, 17>>
    [] tc.val = TokVal("CursorUp") -> <<3>>
    [] tc.val = TokVal("CursorDn") -> <<4>>
    [] tc.val = TokVal("CursorRt") -> <<5>>
    [] tc.val = TokVal("CursorLf") -> <<6>>
    [] OTHER -> <<>>

\* C1: a fresh lexer fed one of the sequences of TestVT byte by byte emits
\* no token before the last byte and exactly one with it, whose Value is the
\* one TestVT expects and whose Params are the numbers written in the
\* sequence (none when it carries no number); the caller's one read of
\* Output finds it there.
C1_TestVT ==
  \A i \in 1..Len(TestVT) :
    Stream = TestVT[i].seq =>
      /\ Len(consumed) < Len(Stream) => Made = <<>>
      /\ Len(consumed) = Len(Stream) =>
           ValuesParams(Made) = << <<TestVT[i].val, TestParams(TestVT[i])>> >>
      /\ got["r1"] \o Output = delivered
      /\ AtEnd => Len(delivered) = 1

C1_Witness ==
  /\ Stream = Str(<<"ESC", "[", "1", "3", ";", "1", "7", "H">>)
  /\ AtEnd
  /\ Values(got["r1"]) = <<TokVal("CursorPos")>>

\* C2: a byte that the machine takes in ground and that is not ESC (as the
\* machine sees it, after run's 7-bit mask) adds exactly one token, whose
\* Value is that byte and whose Params are empty, and the machine stays in
\* ground; so while only such bytes have been consumed the token values are
\* the bytes consumed, in order.
C2_PlainStep ==
  (ByteTaken /\ state = "ground" /\ Head(input) % 128 # ESC) =>
    /\ Where' = "ground"
    /\ ValuesParams(Made') =
         Append(ValuesParams(Made), <<Head(input) % 128, <<>>>>)

C2_Plain ==
  /\ []((\A i \in 1..Len(consumed) : consumed[i] % 128 # ESC) =>
          Values(Made) = Low7(consumed))
  /\ [][C2_PlainStep]_vars

C2_Witness ==
  /\ Stream = Str(<<"ESC", "[", "4", "B", "A">>)
  /\ AtEnd
  /\ state = "ground"
  /\ Values(delivered) = <<TokVal("CursorDn"), Ord("A")>>

\* Whether s is a decimal number: one digit or more, and nothing else.
IsNumber(s) == s # <<>> /\ \A k \in 1..Len(s) : IsDigit(s[k])

\* Whether s is two decimal numbers with a ';' between them.
IsNumberPair(s) ==
  \E k \in 1..Len(s) :
    /\ s[k] = Ord(";")
    /\ IsNumber(SubSeq(s, 1, k - 1))
    /\ IsNumber(SubSeq(s, k + 1, Len(s)))

\* The rows of the grammar with a fixed body after ESC [.
FixedRows ==
  UNION {{cases[i][1] : i \in 1..Len(cases)} :
           cases \in {hCases, lCases, mCases, gCases, KCases, JCases, cCases,
                      yCases, qCases}}
    \cup {Str(<<"H">>), Str(<<";", "H">>), Str(<<"f">>), Str(<<";", "f">>)}

\* Whether the ESC-introduced sequence s is a row of the grammar: ESC and a
\* mapped character; ESC # ( ) and a mapped character; ESC 5 n, ESC 6 n;
\* ESC [ and a fixed body, <n> and one of A B C D, or <a>;<b> and one of
\* H f r.
GrammarRow(s) ==
  LET rest == SubSeq(s, 3, Len(s))
      front == SubSeq(rest, 1, Len(rest) - 1)
      term == rest[Len(rest)]
  IN  CASE Len(s) = 2 ->
             s[2] \in {Ord(ch) : ch \in {"D", "M", "N", "O", "E", "7", "8", "=",
                                          ">", "H", "c"}}
        [] Len(s) > 2 /\ s[2] = Ord("#") ->
             rest \in {<<Ord(ch)>> : ch \in {"3", "4", "5", "6", "8"}}
        [] Len(s) > 2 /\ s[2] \in {Ord("("), Ord(")")} ->
             rest \in {<<Ord(ch)>> : ch \in {"A", "B", "0", "1", "2"}}
        [] Len(s) > 2 /\ IsDigit(s[2]) ->
             SubSeq(s, 2, Len(s)) \in {Str(<<"5", "n">>), Str(<<"6", "n">>)}
        [] Len(s) > 2 /\ s[2] = Ord("[") ->
             \/ rest \in FixedRows
             \/ term \in {Ord("A"), Ord("B"), Ord("C"), Ord("D")} /\ IsNumber(front)
             \/ term \in {Ord("H"), Ord("f"), Ord("r")} /\ IsNumberPair(front)
        [] OTHER -> FALSE

\* The tokens of the followers.
FollowerTokens(t) ==
  CASE t = Str(<<"A">>) -> << <<Ord("A"), <<>>>> >>
    [] t = Str(<<"ESC", "[", "H">>) -> << <<TokVal("CursorHome"), <<>>>> >>
    [] t = Str(<<"ESC", "(", "A">>) -> << <<TokVal("SetUKG0"), <<>>>> >>
    [] t = Str(<<"ESC", "[", "4", "B">>) -> << <<TokVal("CursorDn"), <<4>>>> >>

\* C3: an ESC-introduced sequence that is no row of the grammar emits no
\* token and leaves the machine in ground, and the sequence fed right after
\* it yields exactly its own token.
C3_Unmatched ==
  /\ (IsEscSequence(consumed) /\ ~GrammarRow(consumed)) =>
       Made = <<>> /\ Where = "ground"
  /\ \A t \in Followers :
       LET n == Len(Stream) - Len(t)
       IN  (/\ AtEnd
            /\ n > 0
            /\ SubSeq(Stream, n + 1, Len(Stream)) = t
            /\ IsEscSequence(SubSeq(Stream, 1, n))
            /\ ~GrammarRow(SubSeq(Stream, 1, n))) =>
             ValuesParams(delivered) = FollowerTokens(t)

\* C10: the tokens emitted for the bytes consumed are those a fresh lexer
\* emits for the same bytes with the high bit cleared, and the Value of a
\* plain-character token lies in 0..127.
C10_Masked ==
  /\ Made = Lex(Low7(consumed))
  /\ \A k \in 1..Len(Made) :
       Made[k].Value >= 0 => Made[k].Value \in 0..127

C10_Witness ==
  /\ consumed = <<128 + ESC, 128 + Ord("["), Ord("H")>>
  /\ Values(delivered) = <<TokVal("CursorHome")>>

(***************************************************************************)
(* Claims about the running lexer (SpecPipe, SpecPipeFair, SpecDown)        *)
(***************************************************************************)

IsPrefix(s, t) == Len(s) <= Len(t) /\ s = SubSeq(t, 1, Len(s))

\* The bytes SendChar has accepted, in the order the worker receives them.
Accepted == consumed \o input

\* The tokens put on Output or about to be, oldest first, and those received.
InFlight == Output \o [i \in 1..Len(wsend) |-> wsend[i].tok]
Received == got["r1"] \o got["r2"]

\* Every call of SendChar has returned.
AllFed == \A f \in Feeders : fpos[f] = Len(script[f])

\* C4: one caller feeds two different valid sequences back to back and one
\* caller reads: the tokens read and those still queued are, in this order,
\* a prefix of <<first sequence's token, second sequence's token>>, and they
\* are exactly these two once the worker has taken every byte.
C4_Order ==
  \A a \in Followers, b \in Followers :
    (a # b /\ script["f1"] = a \o b /\ script["f2"] = <<>>) =>
      LET expected == FollowerTokens(a) \o FollowerTokens(b)
          flow == ValuesParams(got["r1"] \o InFlight)
      IN  /\ IsPrefix(flow, expected)
          /\ (AllFed /\ input = <<>> /\ wpc # "send" /\ wsend = <<>>) =>
               (flow = expected /\ Len(Output) + Len(got["r1"]) = 2)

C4_Witness ==
  /\ script["f1"] = Str(<<"ESC", "[", "4", "B", "ESC", "[", "H">>)
  /\ ValuesParams(got["r1"]) =
       << <<TokVal("CursorDn"), <<4>>>>, <<TokVal("CursorHome"), <<>>>> >>

\* The state in which Rundown can never return: its caller is at the send
\* on l.rundown, the worker is inside l.send on a full Output, and no caller
\* is left to read a token.
RundownStuck ==
  /\ rpc = "signal"
  /\ wpc = "send" /\ Len(Output) = OutputCap
  /\ waiting = {} /\ \A r \in Readers : Len(got[r]) = calls[r]

\* C6: a call of Rundown made in any state of a live lexer returns, however
\* many tokens are unread and bytes unconsumed (it is never left where it
\* cannot return), and the channels are closed only after the worker has
\* exited.
C6_RundownReturns ==
  /\ ~RundownStuck
  /\ closed # {} => wpc = "exited" /\ wg = 0

\* The number of GetToken calls the callers make in all.
TotalCalls == calls["r1"] + calls["r2"]

\* C7: under fair scheduling, a caller inside GetToken receives a token
\* once SendChar has accepted the bytes of enough tokens for every call of
\* GetToken that is made; and GetToken returns only by taking the oldest
\* token off a non-empty Output.
C7_ReturnStep ==
  \A r \in Readers :
    (r \in waiting /\ r \notin waiting') =>
      /\ Output # <<>>
      /\ got'[r] = Append(got[r], Head(Output))
      /\ Output' = Tail(Output)

C7_TokenArrives ==
  /\ \A r \in Readers :
       (r \in waiting /\ TotalCalls <= Len(Lex(Accepted))) ~> (r \notin waiting)
  /\ [][C7_ReturnStep]_vars

C7_Witness ==
  /\ script["f1"] = Str(<<"ESC", "[", "H">>) /\ script["f2"] = Str(<<"4", "B">>)
  /\ AllFed
  /\ "r1" \in waiting /\ Output = <<>> /\ wsend # <<>>
  /\ Values(got["r1"]) = <<TokVal("CursorHome"), Ord("4")>>

\* The elements of s that are bytes of caller f's script.
OfCaller(s, f) ==
  LET Mine(c) == \E i \in 1..Len(script[f]) : script[f][i] = c
  IN  SelectSeq(s, Mine)

\* No byte occurs in the scripts of both callers.
DisjointScripts ==
  \A i \in 1..Len(script["f1"]), j \in 1..Len(script["f2"]) :
    script["f1"][i] # script["f2"][j]

\* C8: with several callers of SendChar, the bytes the worker receives are
\* an interleaving of the bytes accepted from each caller that keeps each
\* caller's order: none lost, none twice, no two of one caller swapped.
C8_Interleaving ==
  DisjointScripts =>
    /\ Len(Accepted) = fpos["f1"] + fpos["f2"]
    /\ \A f \in Feeders : OfCaller(Accepted, f) = SubSeq(script[f], 1, fpos[f])

C8_Witness ==
  /\ script["f1"] = LongScript
  /\ consumed = <<Ord("A"), Ord("x"), Ord("B"), Ord("y")>>
  /\ Len(input) = InputCap

\* C9: with several callers of GetToken, the tokens put on Output are each
\* either still queued or held by exactly one caller, none by two; and when
\* the callers make at least k calls, the first k tokens are all received.
C9_Conserved ==
  LET all == Received \o Output
  IN  /\ Len(all) = Len(delivered)
      /\ \A k \in 1..Len(delivered) :
           Cardinality({i \in 1..Len(all) : all[i] = delivered[k]})
             = Cardinality({i \in 1..Len(delivered) : delivered[i] = delivered[k]})

C9_OneReader ==
  /\ []C9_Conserved
  /\ \A k \in 1..4 :
       (Len(delivered) >= k /\ TotalCalls >= k) ~> (Len(Received) >= k)

C9_Witness ==
  /\ Values(got["r1"]) = <<Ord("y")>>
  /\ Values(got["r2"]) = <<Ord("x"), TokVal("SaveCursor")>>

(***************************************************************************)
(* Claims about tokens, shutdown and the grammar                            *)
(***************************************************************************)

\* The state function run is about to call after the bytes s.
StateAfter(s) == runFrom(Fresh, s).next

\* The position of the byte that began what byte k of s completes: the
\* last position up to k that the machine took in ground.
RECURSIVE SeqStart(_, _)
SeqStart(s, k) ==
  IF k <= 1 \/ StateAfter(SubSeq(s, 1, k - 1)) = "ground" THEN k
  ELSE SeqStart(s, k - 1)

\* The last byte consumed made the machine send a token.
LastSent ==
  /\ consumed # <<>>
  /\ Len(Made) > Len(Lex(SubSeq(consumed, 1, Len(consumed) - 1)))

\* C11: the seq of a token is the masked input bytes that produced it: ESC
\* through the final byte for an escape sequence, the byte itself for a
\* plain character.
C11_RawBytes ==
  LastSent =>
    Made[Len(Made)].seq =
      Low7(SubSeq(consumed, SeqStart(consumed, Len(consumed)), Len(consumed)))

\* The same for the tokens of escape sequences only.
C11_EscapeOnly ==
  (LastSent /\ Made[Len(Made)].Value < 0) => C11_RawBytes

\* C12: the worker takes the shutdown signal only at its select, between
\* two bytes and never inside a send; from then on it receives no byte and
\* sends no token: the bytes queued stay queued, the state machine stays
\* where it was, a sequence begun is left without a token.
C12_Step ==
  /\ (wpc # "exited" /\ wpc' = "exited") =>
       /\ wpc = "select" /\ wsend = <<>>
       /\ consumed' = consumed /\ delivered' = delivered
       /\ input' = input /\ Output' = Output
  /\ wpc = "exited" =>
       /\ wpc' = "exited"
       /\ consumed' = consumed /\ delivered' = delivered
       /\ IsPrefix(input, input')
       /\ Output' = Output \/ (Output # <<>> /\ Output' = Tail(Output))
       /\ <<state, seq, params>>' = <<state, seq, params>>

C12_Shutdown ==
  /\ [](wpc = "exited" => wsend = <<>> /\ delivered = Lex(consumed))
  /\ [][C12_Step]_vars

\* The worker has exited in the middle of ESC [ H with '[' still queued.
C12_Witness ==
  /\ wpc = "exited"
  /\ consumed = <<ESC>> /\ input = <<Ord("[")>>
  /\ state = "intermediateChar" /\ delivered = <<>>

\* ESC [ ? d t for a digit d and the terminator t.
ModeSequence(d, t) == <<ESC, Ord("["), Ord("?"), Ord("0") + d, Ord(t)>>

\* The private-mode sequences ESC[?1h .. ESC[?9h and ESC[?1l .. ESC[?9l.
ModeSequences == {ModeSequence(d, t) : d \in 1..9, t \in {"h", "l"}}

\* The state machine run over one mode sequence, alone or after a plain
\* character.
InitModes ==
  /\ NewLexer
  /\ \E s \in ModeSequences, pre \in {<<>>, Str(<<"A">>)} :
       Callers(pre \o s, <<>>, 1, 0)
  /\ tpc = "off" /\ ti = 0

SpecModes == InitModes /\ [][NextPipe]_vars

\* C13: for every digit d in 1..9, ESC[?dh and ESC[?dl each emit exactly
\* one token, a named one, with empty Params.
C13_Modes ==
  (AtEnd /\ Stream \in ModeSequences) =>
    /\ Len(delivered) = 1
    /\ delivered[1].Value < 0
    /\ delivered[1].Params = <<>>

\* The decimal digits of n, as Sprintf("%d", n) writes them.
RECURSIVE Decimal(_)
Decimal(n) ==
  IF n < 10 THEN <<Ord("0") + n>>
  ELSE Append(Decimal(n \div 10), Ord("0") + (n % 10))

\* ESC [ n t and ESC [ v ; h t
OneParam(n, t) == <<ESC, Ord("[")>> \o Decimal(n) \o <<Ord(t)>>
TwoParams(v, h, t) ==
  <<ESC, Ord("[")>> \o Decimal(v) \o <<Ord(";")>> \o Decimal(h) \o <<Ord(t)>>

\* The parameter values tried alone, and those tried in pairs: the ends of
\* the range, the changes of length and the two sides of the byte range.
ParamValues == 0..999
PairValues == {0, 1, 9, 10, 99, 100, 255, 256, 999}

\* ESC [ body t for the cursor movements A, B, C, D and every short body
\* over the body characters and '_'.
CursorLetters == {"A", "B", "C", "D"}
CursorBodies == UNION {Strings(BodyChars \cup {Ord("_")}, n) : n \in 0..MaxBody}
CursorSequences ==
  {<<ESC, Ord("[")>> \o b \o <<Ord(t)>> : b \in CursorBodies, t \in CursorLetters}

\* The state machine run over one sequence with parameters.
InitParams ==
  /\ NewLexer
  /\ \E s \in {OneParam(n, "A") : n \in ParamValues}
         \cup {TwoParams(v, h, "H") : v \in PairValues, h \in PairValues}
         \cup CursorSequences :
       Callers(s, <<>>, 1, 0)
  /\ tpc = "off" /\ ti = 0

SpecParams == InitParams /\ [][NextPipe]_vars

\* C14: every parameter value from 0 through 999 is decoded exactly:
\* ESC[nA emits CursorUp with Params [n] and ESC[v;hH emits CursorPos with
\* Params [v, h].
C14_Range ==
  AtEnd =>
    /\ \A n \in ParamValues :
         Stream = OneParam(n, "A") =>
           ValuesParams(delivered) = << <<TokVal("CursorUp"), <<n>>>> >>
    /\ \A v \in PairValues, h \in PairValues :
         Stream = TwoParams(v, h, "H") =>
           ValuesParams(delivered) = << <<TokVal("CursorPos"), <<v, h>>>> >>

\* The same for the values a byte holds.
C14_ByteRange ==
  AtEnd =>
    /\ \A n \in 0..255 :
         Stream = OneParam(n, "A") =>
           ValuesParams(delivered) = << <<TokVal("CursorUp"), <<n>>>> >>
    /\ \A n \in 256..999 :
         Stream = OneParam(n, "A") => delivered = <<>> /\ state = "ground"

\* The token of each cursor movement.
CursorToken(c) ==
  CASE c = Ord("A") -> TokVal("CursorUp") [] c = Ord("B") -> TokVal("CursorDn")
    [] c = Ord("C") -> TokVal("CursorRt") [] c = Ord("D") -> TokVal("CursorLf")

\* C15: for ESC [ body t with t one of A, B, C, D, a token is emitted if
\* and only if body is exactly one decimal integer, and it is the token of
\* t; for any other body nothing is emitted; the machine is back in ground
\* either way.
C15_CursorBody ==
  LET n == Len(Stream)
  IN  (/\ AtEnd /\ n >= 3
       /\ Stream[1] = ESC /\ Stream[2] = Ord("[")
       /\ Stream[n] \in {Ord(t) : t \in CursorLetters}) =>
        /\ state = "ground"
        /\ IF IsNumber(SubSeq(Stream, 3, n - 1))
           THEN Values(delivered) = <<CursorToken(Stream[n])>>
           ELSE delivered = <<>>

\* The bodies that emit a token are those that begin with a decimal integer
\* of at most 255, whatever follows it.
C15_LeadingNumber ==
  LET n == Len(Stream)
  IN  (/\ AtEnd /\ n >= 3
       /\ Stream[1] = ESC /\ Stream[2] = Ord("[")
       /\ Stream[n] \in {Ord(t) : t \in CursorLetters}) =>
        /\ state = "ground"
        /\ delivered # <<>> <=>
             \E k \in 3..(n - 1) :
               /\ IsNumber(SubSeq(Stream, 3, k))
               /\ k = n - 1 \/ ~IsDigit(Stream[k + 1])
               /\ \E v \in 0..255 : SubSeq(Stream, 3, k) = Decimal(v)

\* C16: whenever the machine is in ground between two bytes, l.seq and
\* l.params are both empty.
C16_GroundEmpty ==
  (wpc = "select" /\ state = "ground") => seq = <<>> /\ params = <<>>

\* They are empty in ground after a plain character and before the first
\* byte, and hold the last escape sequence and its parameters otherwise.
C16_LazyReset ==
  (wpc = "select" /\ state = "ground" /\ consumed # <<>>) =>
    LET k == Len(consumed)
        j == SeqStart(consumed, k)
    IN  IF j = k /\ Mask(consumed[k]) # ESC
        THEN seq = <<>> /\ params = <<>>
        ELSE seq = Low7(SubSeq(consumed, j, k))

\* The 7-bit characters.
Chars == 0..127

\* The state machine run over ESC and any two characters.
InitShort ==
  /\ NewLexer
  /\ \E x \in Chars, y \in Chars : Callers(<<ESC, x, y>>, <<>>, 1, 0)
  /\ tpc = "off" /\ ti = 0

SpecShort == InitShort /\ [][NextPipe]_vars

\* The characters after ESC that lead to a further state.
Introducers ==
  {Ord("["), Ord("("), Ord(")"), Ord("#")}
    \cup {c \in Chars : IsDigit(c) /\ c \notin {Ord("7"), Ord("8")}}

\* C17: one byte taken in escPound, afterLeftParen, afterRightParen or
\* escapeDigit brings the machine back to ground; so does one byte taken in
\* intermediateChar unless it is '[', '(', ')', '#' or a digit other than 7
\* and 8; no byte emits more than one token.  Hence an escape sequence that
\* does not begin with ESC [ ends within 3 bytes with at most one token.
C17_Step ==
  ByteTaken =>
    LET c == Mask(Head(input))
    IN  /\ Len(Made') <= Len(Made) + 1
        /\ Len(Made') > Len(Made) => Where' = "ground"
        /\ state \in {"escPound", "afterLeftParen", "afterRightParen",
                      "escapeDigit"} => Where' = "ground"
        /\ state = "intermediateChar" =>
             /\ Where' = "ground" <=> c \notin Introducers
             /\ c \in {Ord("7"), Ord("8")} => Len(Made') = Len(Made) + 1

C17_ShortSequences ==
  /\ [](Where # "ground" =>
         LET k == Len(consumed)
             j == SeqStart(consumed, k)
         IN  /\ Mask(consumed[j]) = ESC
             /\ \/ k = j
                \/ k = j + 1 /\ Mask(consumed[k]) \in Introducers
                \/ Mask(consumed[j + 1]) = Ord("["))
  /\ [][C17_Step]_vars

\* ESC 5 n has been taken through escapeDigit and has sent DevStat.
C17_Witness ==
  /\ consumed = Str(<<"ESC", "5", "n">>)
  /\ state = "ground"
  /\ Values(delivered) = <<TokVal("DevStat")>>

\* The characters that are not printable or are white space; ESC is one.
Aborting == {c \in Chars : ~IsPrint(c) \/ IsSpace(c)}

\* Unfinished sequences, one or more for each state but ground, and what is
\* fed after the aborting byte.
Unfinished ==
  { Str(<<"ESC">>), Str(<<"ESC", "[">>), Str(<<"ESC", "[", "1">>),
    Str(<<"ESC", "[", "?", "1">>), Str(<<"ESC", "[", "1", ";", "2">>),
    Str(<<"ESC", "#">>), Str(<<"ESC", "(">>), Str(<<"ESC", ")">>),
    Str(<<"ESC", "5">>) }
AfterAbort == {<<>>, Str(<<"[", "H">>), Str(<<"n">>), Str(<<"8">>)}

\* The state machine run over an unfinished sequence, an aborting byte
\* (with the high bit set or not) and what follows.
InitAbort ==
  /\ NewLexer
  /\ \E p \in Unfinished, c \in Aborting \cup {ESC + 128}, t \in AfterAbort :
       Callers(p \o <<c>> \o t, <<>>, 1, 0)
  /\ tpc = "off" /\ ti = 0

SpecAbort == InitAbort /\ [][NextPipe]_vars

\* C18: ESC, like any byte that is not printable or is white space, taken
\* in a state other than ground sends no token and returns the machine to
\* ground without beginning a sequence: the bytes that follow are lexed
\* from ground, each of them a plain character here.
C18_Step ==
  (ByteTaken /\ state # "ground" /\ Mask(Head(input)) \in Aborting) =>
    /\ state' = "ground" /\ wpc' = "select"
    /\ Made' = Made

C18_EscAborts ==
  /\ [](\A p \in Unfinished, t \in AfterAbort :
          (/\ Len(consumed) > Len(p)
           /\ Stream = p \o <<Stream[Len(p) + 1]>> \o t
           /\ Mask(Stream[Len(p) + 1]) \in Aborting) =>
            /\ Values(Made) = SubSeq(t, 1, Len(consumed) - Len(p) - 1)
            /\ Where = "ground")
  /\ [][C18_Step]_vars

\* ESC [ 1 followed by ESC [ H has given the plain tokens '[' and 'H'.
C18_Witness ==
  /\ consumed = Str(<<"ESC", "[", "1", "ESC", "[", "H">>)
  /\ Values(delivered) = Str(<<"[", "H">>)
  /\ state = "ground"

\* C19: under every scheduling the tokens sent on Output so far are a
\* prefix of the tokens of the state machine run sequentially over the
\* bytes accepted so far: with the token the worker holds they are the
\* tokens of the bytes it has received, the machine is where the sequential
\* run is, and a single reader finds them on Output in that order.
C19_Refines ==
  /\ IsPrefix(delivered, Lex(Accepted))
  /\ delivered \o InHand = Lex(consumed)
  /\ wpc = "select" =>
       /\ state = StateAfter(consumed)
       /\ (input = <<>> => delivered = Lex(Accepted))
  /\ calls["r2"] = 0 => got["r1"] \o Output = delivered

\* Two callers' bytes were accepted in an order that breaks ESC [ H: the
\* tokens are those of that order.
C19_Witness ==
  /\ consumed = Str(<<"ESC", "4", "[", "B", "H">>)
  /\ Values(delivered) = Str(<<"B", "H">>)
  /\ Values(got["r1"]) = Str(<<"B">>)

\* Caller f is inside SendChar, blocked on the full inbound channel.
BlockedInSendChar(f) ==
  fpos[f] < Len(script[f]) /\ Len(input) = InputCap

\* C20: Rundown does not close the inbound channel while a call of
\* SendChar is blocked on it, so that no blocked send meets a closed
\* channel.
C20_NoCloseWhileBlocked ==
  "input" \in closed => \A f \in Feeders : ~BlockedInSendChar(f)

====
